---- MODULE Spec2Model ----
(***************************************************************************)
(* Stdio JSON-RPC backends of booltox-plugins: the pomodoro countdown      *)
(* backend, the uiautodev process-supervising backend and the backend-demo *)
(* telemetry backend, and the standalone Qt pomodoro timer.  One behaviour  *)
(* of the model is one run of one program: `backend` is fixed by Init and  *)
(* selects it.                                                             *)
(*                                                                         *)
(* A request handler of the single-threaded read loop is one atomic        *)
(* action.  Worker threads (timer_loop, monitor_loop) advance one          *)
(* statement group at a time between the points where they can be          *)
(* overtaken by the read loop: the loop test, the sleep, the body.         *)
(*                                                                         *)
(* The output streams are observed step by step: `written` and `logged`    *)
(* hold the frames and diagnostics the latest step appended to stdout and  *)
(* stderr, and `events` the tick and completion notifications written      *)
(* since the last accepted start.                                          *)
(***************************************************************************)
EXTENDS Integers, Sequences, FiniteSets, TLC

(* ------------------------------ bounds --------------------------------- *)
\* number of stdin lines one run reads before end-of-stream
MaxLines == 3
\* request ids are 1..MaxId
MaxId == 2
\* largest duration parameter a start request carries
MaxDuration == 2
\* total number of tick notifications one run may emit
MaxTicks == 3

(* --------------------------- JSON encodings ---------------------------- *)
\* Python None, as the value of an id.
None == 0
\* request_id of pomodoro's main() before its first assignment
\* ('request_id' in locals() is false).
Unset == 0 - 1

Ids == 1 .. MaxId

\* A payload is a JSON object reduced to the keys the programs build:
\* name identifies the shape, nums its integer members, text its echoed string.
Payload(name, nums, text) == [name |-> name, nums |-> nums, text |-> text]
Null == Payload("null", <<>>, "")

Bool2Int(b) == IF b THEN 1 ELSE 0

(* ------------------------------ stdin lines ---------------------------- *)
\* A line of stdin.  json: "invalid" (json.loads raises JSONDecodeError),
\* "nonobject" (valid JSON that is not a dict), "object".
\* method "None" is an object without the key "method".
\* params: "object" (a dict, or absent) or "nonobject" (list, string, null).
\* duration 0 stands for an absent, null or zero duration (all falsy).
\* envelope: "request" or "response" (object with result/error and no method).
Line(json, id, method, params, duration, envelope) ==
    [json |-> json, id |-> id, method |-> method, params |-> params,
     duration |-> duration, envelope |-> envelope]

Garbage == Line("invalid", None, "None", "object", 0, "request")
NonObject == Line("nonobject", None, "None", "object", 0, "request")
\* a line that is empty once stripped
Blank == Line("blank", None, "None", "object", 0, "request")
Request(id, method) == Line("object", id, method, "object", 0, "request")
InboundResponse(id) == Line("object", id, "None", "object", 0, "response")

PomodoroLines ==
    {Garbage, NonObject}
    \cup {Request(i, m) : i \in {None} \cup Ids,
                          m \in {"pause", "reset", "getStatus", "bogus"}}
    \cup {Line("object", i, "start", "object", d, "request") :
              i \in {None} \cup Ids, d \in (0 - 1) .. MaxDuration}
    \cup {Line("object", i, "start", "nonobject", 0, "request") :
              i \in {None} \cup Ids}
    \cup {InboundResponse(i) : i \in Ids}

(* ------------------------------- state --------------------------------- *)
VARIABLES
    backend,      \* which program this run is
    mainpc,       \* "boot", "loop", "crashed", "done", "exited"
    nread,        \* lines read so far
    line,         \* the line the read loop read last
    written,      \* frames the latest step appended to stdout, in order
    logged,       \* diagnostics the latest step appended to stderr
    calls,        \* calls into the runtime the latest step made, in order
    events,       \* tick/complete frames on stdout since the last accepted start
    nticks,       \* tick notifications written so far
    duration,     \* PomodoroTimer.duration
    remaining,    \* PomodoroTimer.remaining
    is_running,   \* PomodoroTimer.is_running
    start_time,   \* PomodoroTimer.start_time (0 is None)
    timer_thread, \* PomodoroTimer.timer_thread (0 is None, else index in workers)
    workers,      \* timer_loop threads ever started: their position
    request_id,   \* local request_id of pomodoro's main()
    acked,        \* which acknowledgements the host has seen (see Acknowledge)
    server_process, \* uiautodev: the global server_process (0 is None, else a child)
    children,     \* uiautodev: every child spawned: "starting", "serving", "dead"
    external,     \* uiautodev: an instance this process did not spawn holds the port
    cleanups,     \* uiautodev: how many times cleanup() has run
    relays,       \* uiautodev: per child, the streams a read_output thread relays
    monitoring,   \* backend-demo: SystemMonitor.monitoring
    monitor_thread, \* backend-demo: SystemMonitor.monitor_thread (0 is None)
    monitors,     \* backend-demo: monitor_loop threads ever started: their position
    engine,       \* standalone: the PomodoroEngine object
    config,       \* standalone: the PomodoroConfig object the pages and the engine share
    emitted       \* standalone: the Qt signals the latest step emitted, in order

vars == <<backend, mainpc, nread, line, written, logged, calls, events, nticks,
          duration, remaining, is_running, start_time, timer_thread, workers,
          request_id, acked, server_process, children, external, cleanups,
          relays, monitoring, monitor_thread, monitors, engine, config,
          emitted>>

pomodoroVars == <<events, nticks, duration, remaining, is_running, start_time,
                  timer_thread, workers, request_id, acked>>
uiVars == <<server_process, children, external, cleanups, relays>>
demoVars == <<monitoring, monitor_thread, monitors>>
standaloneVars == <<engine, config, emitted>>

(* ------------------------------ frames --------------------------------- *)
\* A frame is the argument of one sys.stdout.write call: the JSON text and,
\* when newline is set, the "\n" appended to it in the same call.  The runtime
\* runs a write call of one thread to its end before that of another.

\* PomodoroTimer.send without the + "\n".
send_unterminated(method, params) ==
    [kind |-> "notify", id |-> None, method |-> method, body |-> params,
     newline |-> FALSE]

\* PomodoroTimer.send: a notification frame (no id).
send(method, params) ==
    [kind |-> "notify", id |-> None, method |-> method, body |-> params,
     newline |-> TRUE]

\* PomodoroTimer.send_response: error wins when it is truthy.
send_response(rid, result, error) ==
    IF error # Null
    THEN [kind |-> "error", id |-> rid, method |-> "", body |-> error,
          newline |-> TRUE]
    ELSE [kind |-> "result", id |-> rid, method |-> "", body |-> result,
          newline |-> TRUE]

IsResponse(f) == f.kind \in {"result", "error"}
IsTick(f) == f.kind = "notify" /\ f.body.name = "tick"
IsComplete(f) == f.kind = "notify" /\ f.body.name = "complete"

\* The method-not-found error with the code of an internal error.
MethodNotFound_internal(method) == Payload("error", <<0 - 32603>>, method)

\* The error object main() and handle_request build for an unknown method.
MethodNotFound(method) == Payload("error", <<0 - 32601>>, method)
InternalError == Payload("error", <<0 - 32603>>, "Internal error")

Count(seq, P(_)) == Len(SelectSeq(seq, P))

\* A list of method names inside a payload: each name by its position here.
MethodNames == <<"start", "pause", "reset", "getStatus", "getServerUrl",
                 "getServerStatus", "restartServer", "shutdown">>
MethodList(names) ==
    [i \in DOMAIN names |-> CHOOSE k \in DOMAIN MethodNames : MethodNames[k] = names[i]]

\* send_ready that leaves the last method out of the announcement.
send_ready_partial(methods) ==
    send("$ready", Payload("methods",
                           MethodList(SubSeq(methods, 1, Len(methods) - 1)), ""))

\* send_ready: the $ready notification with the list of methods.
send_ready(methods) == send("$ready", Payload("methods", MethodList(methods), ""))

(* --------------------------- pomodoro timer ---------------------------- *)
DefaultDuration == 25 * 60

LiveWorkers == {w \in DOMAIN workers : workers[w] # "dead"}

\* timer_loop, the loop test: enter the body (and its sleep) or return.
TimerLoopTest(w) ==
    /\ backend = "pomodoro"
    /\ UNCHANGED standaloneVars
    /\ UNCHANGED uiVars
    /\ UNCHANGED demoVars
    /\ workers[w] = "test"
    /\ workers' = [workers EXCEPT ![w] =
                      IF is_running /\ remaining > 0 THEN "sleep" ELSE "dead"]
    /\ written' = <<>>
    /\ logged' = <<>>
    /\ UNCHANGED <<backend, mainpc, nread, line, events, nticks, duration,
                   remaining, is_running, start_time, timer_thread,
                   request_id, acked>>

\* timer_loop, after the sleep: decrement and send the tick.
TimerLoopTick(w) ==
    /\ backend = "pomodoro"
    /\ UNCHANGED standaloneVars
    /\ UNCHANGED uiVars
    /\ UNCHANGED demoVars
    /\ workers[w] = "sleep"
    /\ nticks < MaxTicks
    /\ nticks' = nticks + 1
    /\ remaining' = remaining - 1
    /\ LET tick == send("$event", Payload("tick", <<remaining', duration>>, ""))
       IN  /\ written' = <<tick>>
           /\ events' = Append(events, tick)
    /\ logged' = <<>>
    /\ workers' = [workers EXCEPT ![w] = "post"]
    /\ UNCHANGED <<backend, mainpc, nread, line, duration, is_running,
                   start_time, timer_thread, request_id, acked>>

\* timer_loop, the end of the body: completion when remaining <= 0.
\* notification.notify either succeeds or raises, which is logged on stderr.
TimerLoopComplete(w) ==
    /\ backend = "pomodoro"
    /\ UNCHANGED standaloneVars
    /\ UNCHANGED uiVars
    /\ UNCHANGED demoVars
    /\ workers[w] = "post"
    /\ workers' = [workers EXCEPT ![w] = "test"]
    /\ IF remaining <= 0
       THEN LET complete == send("$event", Payload("complete", <<>>, ""))
            IN  /\ is_running' = FALSE
                /\ written' = <<complete>>
                /\ events' = Append(events, complete)
                /\ \E notified \in BOOLEAN :
                       logged' = IF notified THEN <<>> ELSE <<"notify">>
       ELSE /\ written' = <<>>
            /\ logged' = <<>>
            /\ UNCHANGED <<is_running, events>>
    /\ UNCHANGED <<backend, mainpc, nread, line, nticks, duration, remaining,
                   start_time, timer_thread, request_id, acked>>

\* The PomodoroTimer object as one value, for the methods below.
Self == [duration |-> duration, remaining |-> remaining,
         is_running |-> is_running, start_time |-> start_time,
         timer_thread |-> timer_thread, workers |-> workers]

\* What a method call yields: the object after it, the value it returns and
\* the notification frames it wrote.
Outcome(self, result, sent) ==
    [self |-> self, result |-> result, sent |-> sent, calls |-> <<>>]

\* The same outcome of a routine that made these calls into the runtime.
Calling(out, made) == [out EXCEPT !.calls = made]

\* start_timer without its is_running guard: a start is always accepted.
start_timer_unguarded(self, d, now) ==
    LET sized == IF d # 0
                 THEN [self EXCEPT !.duration = d, !.remaining = d]
                 ELSE [self EXCEPT !.remaining = self.duration]
        started == [sized EXCEPT !.is_running = TRUE,
                                 !.start_time = now,
                                 !.workers = Append(@, "test"),
                                 !.timer_thread = Len(self.workers) + 1]
    IN  Calling(Outcome(started, Payload("success", <<started.remaining>>, ""), <<>>),
                     <<"Thread.start">>)

\* PomodoroTimer.start_timer; now is datetime.now().
start_timer(self, d, now) ==
    IF self.is_running
    THEN Outcome(self, Payload("failure", <<>>, "Timer already running"), <<>>)
    ELSE LET sized == IF d # 0
                      THEN [self EXCEPT !.duration = d, !.remaining = d]
                      ELSE [self EXCEPT !.remaining = self.duration]
             started == [sized EXCEPT !.is_running = TRUE,
                                      !.start_time = now,
                                      !.workers = Append(@, "test"),
                                      !.timer_thread = Len(self.workers) + 1]
         IN  Calling(Outcome(started, Payload("success", <<started.remaining>>, ""), <<>>),
                     <<"Thread.start">>)

\* pause_timer without its is_running guard: a pause always succeeds.
pause_timer_unguarded(self) ==
    LET paused == [self EXCEPT !.is_running = FALSE]
    IN  Outcome(paused, Payload("success", <<paused.remaining>>, ""), <<>>)

\* PomodoroTimer.pause_timer
pause_timer(self) ==
    IF ~ self.is_running
    THEN Outcome(self, Payload("failure", <<>>, "Timer not running"), <<>>)
    ELSE LET paused == [self EXCEPT !.is_running = FALSE]
         IN  Outcome(paused, Payload("success", <<paused.remaining>>, ""), <<>>)

\* PomodoroTimer.reset_timer
reset_timer(self) ==
    LET cleared == [self EXCEPT !.is_running = FALSE,
                                !.remaining = self.duration,
                                !.start_time = 0]
    IN  Outcome(cleared, Payload("success", <<cleared.remaining>>, ""),
                <<send("$event", Payload("reset", <<cleared.remaining>>, ""))>>)

\* PomodoroTimer.get_status
get_status(self) ==
    Outcome(self,
            Payload("status", <<Bool2Int(self.is_running), self.remaining,
                                self.duration, self.start_time>>, ""),
            <<>>)

PomodoroMethods == {"start", "pause", "reset", "getStatus"}

\* The method dispatch of pomodoro's main() for a decoded object whose
\* handler does not raise.
PomodoroDispatch(self, l, now) ==
    CASE l.method = "start" -> start_timer(self, l.duration, now)
      [] l.method = "pause" -> pause_timer(self)
      [] l.method = "reset" -> reset_timer(self)
      [] l.method = "getStatus" -> get_status(self)
      [] OTHER -> Outcome(self, Null, <<>>)

\* The error of the dispatch: set in the else branch only.
PomodoroDispatchError(l) ==
    IF l.method \in PomodoroMethods THEN Null ELSE MethodNotFound(l.method)

\* RespondTo without the test of the id: a Response is written for every line.
RespondTo_always(rid, out, error) ==
    out.sent \o <<send_response(rid, out.result, error)>>

\* The frames main() writes for a request: the handler's notifications, then
\* the response unless the id is None.
RespondTo(rid, out, error) ==
    IF rid # None
    THEN out.sent \o <<send_response(rid, out.result, error)>>
    ELSE out.sent

\* What the host has been told, from the Responses written so far:
\*   paused  - a pause was answered with success and no start accepted since;
\*   reset   - a reset was answered and no start accepted since;
\*   started - the remaining time d > 0 that the success Response of a start
\*             carried, while no start, pause or reset line has been read
\*             since (0 otherwise);
\*   negative - a start with a negative duration has been accepted.
Acknowledge(l, out) ==
    LET accepted == out.result.name = "success"
        answered == l.id # None
    IN  CASE l.method = "start" /\ accepted ->
                 [paused |-> FALSE, reset |-> FALSE,
                  started |-> IF answered /\ out.self.remaining > 0
                              THEN out.self.remaining ELSE 0,
                  negative |-> acked.negative \/ l.duration < 0]
          [] l.method = "start" /\ ~ accepted -> [acked EXCEPT !.started = 0]
          [] l.method = "pause" ->
                 [acked EXCEPT !.paused = @ \/ (accepted /\ answered),
                               !.started = 0]
          [] l.method = "reset" ->
                 [acked EXCEPT !.reset = @ \/ answered, !.started = 0]
          [] OTHER -> acked

SetTimer(self) ==
    /\ duration' = self.duration
    /\ remaining' = self.remaining
    /\ is_running' = self.is_running
    /\ start_time' = self.start_time
    /\ timer_thread' = self.timer_thread
    /\ workers' = self.workers

\* main(): the $ready announcement before the loop.
PomodoroBoot ==
    /\ backend = "pomodoro"
    /\ UNCHANGED standaloneVars
    /\ UNCHANGED uiVars
    /\ UNCHANGED demoVars
    /\ mainpc = "boot"
    /\ mainpc' = "loop"
    /\ written' = <<send("$ready",
                          Payload("methods",
                                  MethodList(<<"start", "pause", "reset", "getStatus">>),
                                  ""))>>
    /\ logged' = <<>>
    /\ calls' = <<>>
    /\ UNCHANGED <<backend, nread, line, events, nticks, duration, remaining,
                   is_running, start_time, timer_thread, workers, request_id,
                   acked>>

\* main(): one iteration of the loop on a line that json.loads rejects.
PomodoroBadJson(l) ==
    /\ l.json = "invalid"
    /\ logged' = <<"JSONDecodeError">>
    /\ calls' = <<>>
    /\ written' = <<>>
    /\ UNCHANGED <<events, duration, remaining, is_running, start_time,
                   timer_thread, workers, request_id, acked>>

\* main(): one iteration whose body raises: request.get on a non-dict
\* (before request_id is assigned) or params.get on a non-dict (after).
PomodoroRaise(l) ==
    /\ \/ /\ l.json = "nonobject"
          /\ request_id' = request_id
          /\ acked' = acked
       \/ /\ l.json = "object" /\ l.method = "start" /\ l.params = "nonobject"
          /\ request_id' = l.id
          /\ acked' = [acked EXCEPT !.started = 0]
    /\ logged' = <<"Exception">>
    /\ calls' = <<>>
    /\ written' = IF request_id' # Unset /\ request_id' # None
                  THEN <<send_response(request_id', Null, InternalError)>>
                  ELSE <<>>
    /\ UNCHANGED <<events, duration, remaining, is_running, start_time,
                   timer_thread, workers>>

\* main(): one iteration that dispatches and answers.
PomodoroServe(l) ==
    /\ l.json = "object"
    /\ ~ (l.method = "start" /\ l.params = "nonobject")
    /\ LET out == PomodoroDispatch(Self, l, nread + 1)
       IN  /\ SetTimer(out.self)
           /\ request_id' = l.id
           /\ written' = RespondTo(l.id, out, PomodoroDispatchError(l))
           /\ calls' = out.calls
           /\ acked' = Acknowledge(l, out)
           /\ events' = IF l.method = "start" /\ out.result.name = "success"
                        THEN <<>> ELSE events
    /\ logged' = <<>>

\* main(): read one line and process it.
PomodoroMain ==
    /\ backend = "pomodoro"
    /\ UNCHANGED standaloneVars
    /\ mainpc = "loop"
    /\ nread < MaxLines
    /\ \E l \in PomodoroLines :
          /\ line' = l
          /\ nread' = nread + 1
          /\ \/ PomodoroBadJson(l)
             \/ PomodoroRaise(l)
             \/ PomodoroServe(l)
    /\ UNCHANGED <<backend, mainpc, nticks>>
    /\ UNCHANGED uiVars
    /\ UNCHANGED demoVars

\* main(): readline returns the empty string at end-of-stream; the process
\* exits and its daemon threads with it.
PomodoroEof ==
    /\ backend = "pomodoro"
    /\ UNCHANGED standaloneVars
    /\ UNCHANGED uiVars
    /\ UNCHANGED demoVars
    /\ mainpc = "loop"
    /\ mainpc' = "done"
    /\ written' = <<>>
    /\ logged' = <<>>
    /\ calls' = <<>>
    /\ UNCHANGED <<backend, nread, line, events, nticks, duration, remaining,
                   is_running, start_time, timer_thread, workers, request_id,
                   acked>>

PomodoroWorker ==
    /\ mainpc = "loop"
    /\ calls' = <<>>
    /\ \E w \in DOMAIN workers :
          \/ TimerLoopTest(w)
          \/ TimerLoopTick(w)
          \/ TimerLoopComplete(w)

PomodoroNext == PomodoroBoot \/ PomodoroMain \/ PomodoroEof \/ PomodoroWorker

(* ------------------------------ uiautodev ------------------------------ *)
UiLines ==
    {Garbage, NonObject, Blank}
    \cup {Request(i, m) : i \in {None} \cup Ids,
                          m \in {"getServerUrl", "getServerStatus",
                                 "restartServer", "shutdown", "bogus"}}
    \cup {InboundResponse(i) : i \in Ids}

\* emit: an $event notification carrying the event name and its data.
emit(event, nums, text) == send("$event", Payload(event, nums, text))

\* emit("log", {"level": level, "message": message})
Log(level, message) == emit("log", <<Bool2Int(level = "error")>>, message)

\* The supervisor's globals and the processes around it as one value.
Ui == [server_process |-> server_process, children |-> children,
       external |-> external, cleanups |-> cleanups, relays |-> relays]

\* is_port_in_use that never finds the endpoint taken.
is_port_in_use_never(u) == FALSE

\* is_port_in_use: some process accepts connections on the endpoint.
is_port_in_use(u) ==
    u.external \/ \E c \in DOMAIN u.children : u.children[c] = "serving"

\* What the spawn and the readiness wait of start_uiautodev_server can come
\* to: the try block raises before Popen returns ("error"), the child serves
\* within the timeout ("ready"), the wait times out with the child alive
\* ("timeout") or with the child gone ("exited").
StartOutcomes == {"error", "ready", "timeout", "exited"}

\* The state of the spawned child when start_uiautodev_server returns.
ChildAfter(outcome) ==
    CASE outcome = "ready" -> "serving"
      [] outcome = "timeout" -> "starting"
      [] OTHER -> "dead"

\* wait_for_server that reports readiness whatever the probes found.
wait_for_server_always(outcome) == TRUE

\* wait_for_server(timeout=30): True when a probe succeeded within the bound,
\* False once the bound has passed.
wait_for_server(outcome) == outcome = "ready"

\* start_uiautodev_server
start_uiautodev_server(u, outcome) ==
    IF is_port_in_use(u)
    THEN Calling(Outcome(u, TRUE, <<Log("info", "already running")>>),
                 <<"connect_ex">>)
    ELSE LET child == Len(u.children) + 1
             spawned(st) == [u EXCEPT !.children = Append(@, st),
                                      !.relays = Append(@, {"info", "error"}),
                                      !.server_process = child]
             launch == <<"connect_ex", "Popen", "Thread.start", "Thread.start",
                         "wait_for_server(timeout=30)">>
         IN  IF outcome = "error"
             THEN Calling(Outcome(u, FALSE, <<Log("info", "starting"),
                                              Log("error", "start failed")>>),
                          <<"connect_ex", "Popen">>)
             ELSE IF wait_for_server(outcome)
             THEN Calling(Outcome(spawned(ChildAfter(outcome)), TRUE,
                                  <<Log("info", "starting"), Log("info", "started")>>),
                          launch)
             ELSE Calling(Outcome(spawned(ChildAfter(outcome)), FALSE,
                                  <<Log("info", "starting"), Log("error", "timeout")>>),
                          launch)

\* What terminate() and wait(timeout=5) come to for a live child: it exits
\* within the five seconds ("exited"); it is still alive when the wait times
\* out and is killed ("killed"); terminate() raises ("raised"), which the
\* runtime does only for a process that is already on its way out and can no
\* longer be signalled.  A child that is already dead makes both calls return
\* at once.
StopOutcomes == {"exited", "killed", "raised"}

\* stop_uiautodev_server that asks the control endpoint to shut down only
\* when it had a child of its own to stop.
stop_uiautodev_server_owned(u, grace, honoured) ==
    LET owned == u.server_process
        alive == owned # 0 /\ u.children[owned] # "dead"
        teardown == CASE owned = 0 -> <<>>
                      [] alive /\ grace = "raised" -> <<"terminate">>
                      [] alive /\ grace = "killed" ->
                             <<"terminate", "wait(timeout=5)", "kill">>
                      [] OTHER -> <<"terminate", "wait(timeout=5)">>
        cleared == IF owned # 0
                   THEN [u EXCEPT !.children[owned] = "dead", !.server_process = 0]
                   ELSE u
        asked == owned # 0
        closed == IF asked /\ honoured /\ is_port_in_use(cleared)
                  THEN [cleared EXCEPT !.external = FALSE,
                                       !.children = [c \in DOMAIN @ |->
                                                       IF @[c] = "serving" THEN "dead"
                                                       ELSE @[c]]]
                  ELSE cleared
    IN  Calling(Outcome(closed, TRUE, <<>>),
                teardown \o (IF asked THEN <<"urlopen(/shutdown)">> ELSE <<>>))

\* stop_uiautodev_server: terminate, wait, kill the owned child, clear the
\* global; then the /shutdown call.  honoured: the instance that was listening
\* has stopped doing so by the time the caller goes on; otherwise it ignored
\* the call, the call raised, or it is still on its way out.
stop_uiautodev_server(u, grace, honoured) ==
    LET owned == u.server_process
        alive == owned # 0 /\ u.children[owned] # "dead"
        teardown == CASE owned = 0 -> <<>>
                      [] alive /\ grace = "raised" -> <<"terminate">>
                      [] alive /\ grace = "killed" ->
                             <<"terminate", "wait(timeout=5)", "kill">>
                      [] OTHER -> <<"terminate", "wait(timeout=5)">>
        cleared == IF owned # 0
                   THEN [u EXCEPT !.children[owned] = "dead", !.server_process = 0]
                   ELSE u
        closed == IF honoured /\ is_port_in_use(cleared)
                  THEN [cleared EXCEPT !.external = FALSE,
                                       !.children = [c \in DOMAIN @ |->
                                                       IF @[c] = "serving" THEN "dead"
                                                       ELSE @[c]]]
                  ELSE cleared
    IN  Calling(Outcome(closed, TRUE, <<>>), teardown \o <<"urlopen(/shutdown)">>)

\* The outcomes a call can have in this state: terminate and wait have one
\* outcome unless the owned child is alive, the /shutdown call one unless
\* something listens, the spawn one unless the request is a restart.
Graces(u) ==
    IF u.server_process # 0 /\ u.children[u.server_process] # "dead"
    THEN StopOutcomes ELSE {"exited"}
Honours(u) == IF is_port_in_use(u) THEN BOOLEAN ELSE {FALSE}
Spawns(l) == IF l.method = "restartServer" THEN StartOutcomes ELSE {"ready"}
Stops(l) == l.json = "object" /\ l.method \in {"restartServer", "shutdown"}

UiMethods == {"getServerUrl", "getServerStatus", "restartServer", "shutdown"}

\* request.get("method", ""): the empty string when the key is absent.
UiMethodOf(l) == IF l.method = "None" THEN "" ELSE l.method

\* handle_request whose restartServer starts the new service before it stops
\* the old one.
handle_request_overlap(u, l, grace, honoured, outcome) ==
    LET method == UiMethodOf(l)
    IN  CASE method = "getServerUrl" ->
                 [out |-> Outcome(u, Payload("url", <<>>, ""), <<>>), error |-> Null]
          [] method = "getServerStatus" ->
                 [out |-> Calling(Outcome(u, Payload("status",
                                                     <<Bool2Int(is_port_in_use(u))>>, ""),
                                          <<>>),
                                  <<"connect_ex">>),
                  error |-> Null]
          [] method = "restartServer" ->
                 LET started == start_uiautodev_server(u, outcome)
                     stopped == stop_uiautodev_server(started.self, grace, honoured)
                 IN  [out |-> Calling(Outcome(stopped.self,
                                              Payload("restart",
                                                      <<Bool2Int(started.result)>>, ""),
                                              started.sent),
                                      started.calls \o <<"sleep(1)">> \o stopped.calls),
                      error |-> Null]
          [] method = "shutdown" ->
                 LET stopped == stop_uiautodev_server(u, grace, honoured)
                 IN  [out |-> Calling(Outcome(stopped.self,
                                              Payload("shutdown", <<1>>, ""), <<>>),
                                      stopped.calls),
                      error |-> Null]
          [] OTHER ->
                 [out |-> Outcome(u, Null, <<>>), error |-> MethodNotFound(method)]

\* handle_request: the response dictionary, with the state after the call,
\* the notifications written and the calls made meanwhile.  result is Null
\* when "error" is set.
handle_request(u, l, grace, honoured, outcome) ==
    LET method == UiMethodOf(l)
    IN  CASE method = "getServerUrl" ->
                 [out |-> Outcome(u, Payload("url", <<>>, ""), <<>>), error |-> Null]
          [] method = "getServerStatus" ->
                 [out |-> Calling(Outcome(u, Payload("status",
                                                     <<Bool2Int(is_port_in_use(u))>>, ""),
                                          <<>>),
                                  <<"connect_ex">>),
                  error |-> Null]
          [] method = "restartServer" ->
                 LET stopped == stop_uiautodev_server(u, grace, honoured)
                     started == start_uiautodev_server(stopped.self, outcome)
                 IN  [out |-> Calling(Outcome(started.self,
                                              Payload("restart",
                                                      <<Bool2Int(started.result)>>, ""),
                                              started.sent),
                                      stopped.calls \o <<"sleep(1)">> \o started.calls),
                      error |-> Null]
          [] method = "shutdown" ->
                 LET stopped == stop_uiautodev_server(u, grace, honoured)
                 IN  [out |-> Calling(Outcome(stopped.self,
                                              Payload("shutdown", <<1>>, ""), <<>>),
                                      stopped.calls),
                      error |-> Null]
          [] OTHER ->
                 [out |-> Outcome(u, Null, <<>>), error |-> MethodNotFound(method)]

\* cleanup that is counted but stops nothing.
cleanup_idle(u, grace, honoured) ==
    Outcome([u EXCEPT !.cleanups = @ + 1], TRUE, <<>>)

\* cleanup: one more run of the teardown routine.
cleanup(u, grace, honoured) ==
    LET stopped == stop_uiautodev_server(u, grace, honoured)
    IN  [stopped EXCEPT !.self.cleanups = @ + 1]

\* signal_handler: cleanup(), then sys.exit(0), whose SystemExit ends the
\* interpreter through the atexit hook main() registered: cleanup() again.
signal_handler(u, grace, honoured, again) ==
    LET first == cleanup(u, grace, honoured)
        atexit == cleanup(first.self, "exited", again)
    IN  Calling(atexit, first.calls \o <<"sys.exit">> \o atexit.calls)

SetUi(u) ==
    /\ server_process' = u.server_process
    /\ children' = u.children
    /\ external' = u.external
    /\ cleanups' = u.cleanups
    /\ relays' = u.relays

\* main() up to the loop: start the service, announce readiness.
UiBoot ==
    /\ backend = "uiautodev"
    /\ UNCHANGED standaloneVars
    /\ mainpc = "boot"
    /\ mainpc' = "loop"
    /\ \E outcome \in StartOutcomes :
          LET started == start_uiautodev_server(Ui, outcome)
          IN  /\ SetUi(started.self)
              /\ calls' = started.calls
              /\ written' = started.sent \o
                     <<send_ready(<<"getServerUrl", "getServerStatus",
                                   "restartServer", "shutdown">>),
                       emit("serverReady", <<Bool2Int(started.result)>>, "")>>
    /\ logged' = <<>>
    /\ UNCHANGED <<backend, nread, line>>
    /\ UNCHANGED pomodoroVars
    /\ UNCHANGED demoVars

\* The body of the for loop of main() for one line.  A blank line and a line
\* json.loads rejects are skipped; request.get on a non-dict raises out of
\* main(), and the interpreter exits through the atexit hook (cleanup).
UiServe(l) ==
    \/ /\ l.json \in {"blank", "invalid"}
       /\ written' = <<>>
       /\ logged' = <<>>
       /\ calls' = <<>>
       /\ UNCHANGED mainpc
       /\ UNCHANGED uiVars
    \/ /\ l.json = "nonobject"
       /\ mainpc' = "crashed"
       /\ written' = <<>>
       /\ logged' = <<"Traceback">>
       /\ \E grace \in Graces(Ui), honoured \in Honours(Ui) :
             LET atexit == cleanup(Ui, grace, honoured)
             IN  /\ SetUi(atexit.self)
                 /\ calls' = atexit.calls
    \/ /\ l.json = "object"
       /\ \E grace \in (IF Stops(l) THEN Graces(Ui) ELSE {"exited"}),
             honoured \in (IF Stops(l) THEN Honours(Ui) ELSE {FALSE}),
             outcome \in Spawns(l) :
             LET response == handle_request(Ui, l, grace, honoured, outcome)
             IN  /\ SetUi(response.out.self)
                 /\ calls' = response.out.calls
                 /\ written' = RespondTo(l.id, response.out, response.error)
       /\ logged' = <<>>
       /\ UNCHANGED mainpc

UiMain ==
    /\ backend = "uiautodev"
    /\ UNCHANGED standaloneVars
    /\ mainpc = "loop"
    /\ nread < MaxLines
    /\ \E l \in UiLines :
          /\ line' = l
          /\ nread' = nread + 1
          /\ UiServe(l)
    /\ UNCHANGED backend
    /\ UNCHANGED pomodoroVars
    /\ UNCHANGED demoVars

\* End of stdin: main() returns and the atexit hook runs cleanup().
UiEof ==
    /\ backend = "uiautodev"
    /\ UNCHANGED standaloneVars
    /\ mainpc = "loop"
    /\ mainpc' = "done"
    /\ \E grace \in Graces(Ui), honoured \in Honours(Ui) :
          LET atexit == cleanup(Ui, grace, honoured)
          IN  /\ SetUi(atexit.self)
              /\ calls' = atexit.calls
    /\ written' = <<>>
    /\ logged' = <<>>
    /\ UNCHANGED <<backend, nread, line>>
    /\ UNCHANGED pomodoroVars
    /\ UNCHANGED demoVars

\* SIGTERM or SIGINT reaches the process while it waits for a line.
UiSignal ==
    /\ backend = "uiautodev"
    /\ UNCHANGED standaloneVars
    /\ mainpc = "loop"
    /\ mainpc' = "exited"
    /\ \E grace \in Graces(Ui), honoured \in Honours(Ui), again \in Honours(Ui) :
          LET handled == signal_handler(Ui, grace, honoured, again)
          IN  /\ SetUi(handled.self)
              /\ calls' = handled.calls
    /\ written' = <<>>
    /\ logged' = <<>>
    /\ UNCHANGED <<backend, nread, line>>
    /\ UNCHANGED pomodoroVars
    /\ UNCHANGED demoVars

\* read_output, one iteration: a line of the child's stream is relayed as a
\* log notification of the thread's level.
ReadOutputLine(c, level) ==
    /\ children[c] # "dead"
    /\ written' = <<Log(level, "child output")>>
    /\ UNCHANGED relays

\* read_output, the end of the for loop: readline returns b'' once the child
\* is gone and its pipe is closed; the thread ends.
ReadOutputEnd(c, level) ==
    /\ children[c] = "dead"
    /\ relays' = [relays EXCEPT ![c] = @ \ {level}]
    /\ written' = <<>>

\* The two read_output threads of each child.
UiRelay ==
    /\ backend = "uiautodev"
    /\ UNCHANGED standaloneVars
    /\ mainpc = "loop"
    /\ \E c \in DOMAIN relays :
          \E level \in relays[c] :
             \/ ReadOutputLine(c, level)
             \/ ReadOutputEnd(c, level)
    /\ logged' = <<>>
    /\ calls' = <<>>
    /\ UNCHANGED <<backend, mainpc, nread, line, server_process, children,
                   external, cleanups>>
    /\ UNCHANGED pomodoroVars
    /\ UNCHANGED demoVars

\* The world around the supervisor: another instance takes the free port or
\* goes away; a child exits on its own; a child that was still starting when
\* the readiness wait gave up begins to serve.
UiEnvironment ==
    /\ backend = "uiautodev"
    /\ UNCHANGED standaloneVars
    /\ mainpc = "loop"
    /\ \/ /\ external' = ~ external
          /\ external \/ ~ is_port_in_use(Ui)
          /\ UNCHANGED children
       \/ /\ \E c \in DOMAIN children :
                /\ children[c] # "dead"
                /\ children' = [children EXCEPT ![c] = "dead"]
          /\ UNCHANGED external
       \/ /\ \E c \in DOMAIN children :
                /\ children[c] = "starting"
                /\ ~ is_port_in_use(Ui)
                /\ children' = [children EXCEPT ![c] = "serving"]
          /\ UNCHANGED external
    /\ written' = <<>>
    /\ logged' = <<>>
    /\ calls' = <<>>
    /\ UNCHANGED <<backend, mainpc, nread, line, server_process, cleanups, relays>>
    /\ UNCHANGED pomodoroVars
    /\ UNCHANGED demoVars

UiNext == UiBoot \/ UiMain \/ UiEof \/ UiSignal \/ UiRelay \/ UiEnvironment

(* ----------------------------- backend-demo ---------------------------- *)
\* A command line is an object whose "command" key is carried in method.
DemoLines ==
    {Garbage, NonObject, Blank}
    \cup {Request(None, c) : c \in {"get_system_info", "get_processes",
                                    "start_monitor", "stop_monitor", "bogus"}}

LiveMonitors == {m \in DOMAIN monitors : monitors[m] # "dead"}

\* monitor_loop, the loop test.
MonitorLoopTest(m) ==
    /\ monitors[m] = "test"
    /\ monitors' = [monitors EXCEPT ![m] = IF monitoring THEN "sample" ELSE "dead"]
    /\ written' = <<>>

\* monitor_loop, the try block up to the sleep: send the sample; or an
\* exception is raised, reported, and the loop is left by break.
MonitorLoopSample(m) ==
    /\ monitors[m] = "sample"
    /\ \/ /\ written' = <<send("monitor_data", Payload("data", <<>>, ""))>>
          /\ monitors' = [monitors EXCEPT ![m] = "sleep"]
       \/ /\ written' = <<send("error", Payload("message", <<>>, "monitor loop error"))>>
          /\ monitors' = [monitors EXCEPT ![m] = "dead"]

\* monitor_loop, the end of time.sleep(1).
MonitorLoopWake(m) ==
    /\ monitors[m] = "sleep"
    /\ monitors' = [monitors EXCEPT ![m] = "test"]
    /\ written' = <<>>

DemoWorker ==
    /\ backend = "demo"
    /\ UNCHANGED standaloneVars
    /\ mainpc = "loop"
    /\ \E m \in DOMAIN monitors :
          \/ MonitorLoopTest(m)
          \/ MonitorLoopSample(m)
          \/ MonitorLoopWake(m)
    /\ logged' = <<>>
    /\ calls' = <<>>
    /\ UNCHANGED <<backend, mainpc, nread, line, monitoring, monitor_thread>>
    /\ UNCHANGED pomodoroVars
    /\ UNCHANGED uiVars

\* The SystemMonitor object as one value.
Monitor == [monitoring |-> monitoring, monitor_thread |-> monitor_thread,
            monitors |-> monitors]

\* SystemMonitor.start_monitor
start_monitor(self) ==
    IF self.monitoring
    THEN Outcome(self, Null, <<send("info", Payload("message", <<>>, "already running"))>>)
    ELSE Calling(Outcome([self EXCEPT !.monitoring = TRUE,
                                      !.monitors = Append(@, "test"),
                                      !.monitor_thread = Len(self.monitors) + 1],
                         Null,
                         <<send("monitor_started", Payload("message", <<>>, "started"))>>),
                 <<"Thread.start">>)

\* The frames the joined thread still writes while stop_monitor waits for it:
\* the sample it was about to send when the flag was cleared.
LastSample(pos) ==
    IF pos = "sample"
    THEN <<send("monitor_data", Payload("data", <<>>, ""))>>
    ELSE <<>>

\* SystemMonitor.stop_monitor; joined tells whether the thread ended within
\* the two seconds of join(timeout=2).
stop_monitor(self, joined) ==
    IF ~ self.monitoring
    THEN Outcome(self, Null, <<send("info", Payload("message", <<>>, "not running"))>>)
    ELSE LET t == self.monitor_thread
             cleared == [self EXCEPT !.monitoring = FALSE]
             stopped == send("monitor_stopped", Payload("message", <<>>, "stopped"))
             waited == IF t # 0 THEN <<"join(timeout=2)">> ELSE <<>>
         IN  IF joined /\ t # 0
             THEN Calling(Outcome([cleared EXCEPT !.monitors[t] = "dead"], Null,
                                  LastSample(self.monitors[t]) \o <<stopped>>),
                          waited)
             ELSE Calling(Outcome(cleared, Null, <<stopped>>), waited)

\* SystemMonitor.handle_command for a dict payload.
handle_command(self, l, joined) ==
    CASE l.method = "get_system_info" ->
             Outcome(self, Null, <<send("system_info", Payload("data", <<>>, ""))>>)
      [] l.method = "get_processes" ->
             Outcome(self, Null, <<send("processes", Payload("data", <<>>, ""))>>)
      [] l.method = "start_monitor" -> start_monitor(self)
      [] l.method = "stop_monitor" -> stop_monitor(self, joined)
      [] OTHER ->
             Outcome(self, Null, <<send("unknown_command", Payload("command", <<>>, l.method))>>)

\* main(): the backend_ready announcement before the loop.
DemoBoot ==
    /\ backend = "demo"
    /\ UNCHANGED standaloneVars
    /\ mainpc = "boot"
    /\ mainpc' = "loop"
    /\ written' = <<send("backend_ready", Payload("message", <<>>, "ready"))>>
    /\ logged' = <<>>
    /\ calls' = <<>>
    /\ UNCHANGED <<backend, nread, line>>
    /\ UNCHANGED pomodoroVars
    /\ UNCHANGED uiVars
    /\ UNCHANGED demoVars

\* The body of the for loop of main() for one line.
DemoServe(l) ==
    \/ /\ l.json = "blank"
       /\ written' = <<>>
       /\ calls' = <<>>
       /\ UNCHANGED demoVars
    \/ /\ l.json = "invalid"
       /\ written' = <<send("error", Payload("message", <<>>, "JSON parse failed"))>>
       /\ calls' = <<>>
       /\ UNCHANGED demoVars
    \/ /\ l.json = "nonobject"
       /\ written' = <<send("error", Payload("message", <<>>, "command error"))>>
       /\ calls' = <<>>
       /\ UNCHANGED demoVars
    \/ /\ l.json = "object"
       /\ \E joined \in BOOLEAN :
             LET out == handle_command(Monitor, l, joined)
             IN  /\ monitoring' = out.self.monitoring
                 /\ monitor_thread' = out.self.monitor_thread
                 /\ monitors' = out.self.monitors
                 /\ written' = out.sent
                 /\ calls' = out.calls

DemoMain ==
    /\ backend = "demo"
    /\ UNCHANGED standaloneVars
    /\ mainpc = "loop"
    /\ nread < MaxLines
    /\ \E l \in DemoLines :
          /\ line' = l
          /\ nread' = nread + 1
          /\ DemoServe(l)
    /\ logged' = <<>>
    /\ UNCHANGED <<backend, mainpc>>
    /\ UNCHANGED pomodoroVars
    /\ UNCHANGED uiVars

\* End of stdin: main() returns and the process exits.
DemoEof ==
    /\ backend = "demo"
    /\ UNCHANGED standaloneVars
    /\ mainpc = "loop"
    /\ mainpc' = "done"
    /\ written' = <<>>
    /\ logged' = <<>>
    /\ calls' = <<>>
    /\ UNCHANGED <<backend, nread, line>>
    /\ UNCHANGED pomodoroVars
    /\ UNCHANGED uiVars
    /\ UNCHANGED demoVars

DemoNext == DemoBoot \/ DemoMain \/ DemoEof \/ DemoWorker

(* ------------------------ python-standalone-demo ----------------------- *)
PomodoroMode == {"focus", "short_break", "long_break"}

\* The lower ends of the ranges the settings page gives its spin boxes.
SpinMinimums == [focus_minutes |-> 10, short_break_minutes |-> 3,
                 long_break_minutes |-> 5, long_break_interval |-> 2]

\* A PomodoroConfig with the shortest durations the settings page allows and
\* the two auto-start switches as given (sound_enabled reaches the notifier
\* only and is left out).
PomodoroConfig(focus, break) ==
    [focus_minutes |-> SpinMinimums.focus_minutes,
     short_break_minutes |-> SpinMinimums.short_break_minutes,
     long_break_minutes |-> SpinMinimums.long_break_minutes,
     long_break_interval |-> SpinMinimums.long_break_interval,
     auto_start_focus |-> focus,
     auto_start_break |-> break]

\* The configurations from_settings can load and _save can store.
Configs == {PomodoroConfig(focus, break) : focus \in BOOLEAN, break \in BOOLEAN}

\* PomodoroConfig.duration_for_mode
duration_for_mode(c, mode) ==
    CASE mode = "focus" -> c.focus_minutes
      [] mode = "short_break" -> c.short_break_minutes
      [] mode = "long_break" -> c.long_break_minutes

\* PomodoroEngine._total_seconds
_total_seconds(c, mode) == duration_for_mode(c, mode) * 60

\* An emitted Qt signal with its arguments.
Signal(name, mode, args) == [signal |-> name, mode |-> mode, args |-> args]

\* self.tick.emit(self.current_mode, self.remaining, self._total_seconds(...))
Tick(e, c) ==
    Signal("tick", e.current_mode, <<e.remaining, _total_seconds(c, e.current_mode)>>)

\* What a method leaves: the engine after it and the signals it emitted.
Ran(e, signals) == [self |-> e, emitted |-> signals]

\* PomodoroEngine.__init__
NewEngine(c) ==
    [current_mode |-> "focus", remaining |-> _total_seconds(c, "focus"),
     completed_sessions |-> 0, is_running |-> FALSE, timer |-> FALSE]

\* PomodoroEngine.start
start(e, c) ==
    IF e.is_running
    THEN Ran(e, <<>>)
    ELSE LET started == [e EXCEPT !.is_running = TRUE, !.timer = TRUE]
         IN  Ran(started, <<Tick(started, c)>>)

\* PomodoroEngine.pause
pause(e) ==
    IF ~ e.is_running THEN e ELSE [e EXCEPT !.is_running = FALSE, !.timer = FALSE]

\* PomodoroEngine.reset
reset(e, c, keep_mode) ==
    LET paused == pause(e)
        moded == IF keep_mode THEN paused ELSE [paused EXCEPT !.current_mode = "focus"]
        full == [moded EXCEPT !.remaining = _total_seconds(c, moded.current_mode)]
    IN  Ran(full, <<Tick(full, c)>>)

\* PomodoroEngine._next_mode: the mode to enter, and the engine with
\* completed_sessions cleared when a long break is due.
_next_mode(e, c, mode) ==
    IF mode = "focus"
    THEN IF /\ e.completed_sessions > 0
            /\ e.completed_sessions % c.long_break_interval = 0
         THEN [self |-> [e EXCEPT !.completed_sessions = 0], mode |-> "long_break"]
         ELSE [self |-> e, mode |-> "short_break"]
    ELSE [self |-> e, mode |-> "focus"]

\* PomodoroWindow._handle_auto_start, the slot _wire_auto_start connects to
\* cycleCompleted: it reads engine.current_mode at the time it is called.
_handle_auto_start(e, c, mode) ==
    LET next_mode == e.current_mode
    IN  IF next_mode = "focus" /\ c.auto_start_focus
        THEN start(e, c)
        ELSE IF next_mode # "focus" /\ c.auto_start_break
        THEN start(e, c)
        ELSE Ran(e, <<>>)

\* PomodoroEngine._complete_cycle.  The slots of cycleCompleted run inside
\* emit(), before the statements that follow it; TimerPage._on_cycle_complete
\* touches the statistics and the notifier only.
_complete_cycle(e, c, forced) ==
    LET paused == pause(e)
        mode == paused.current_mode
        slots == _handle_auto_start(paused, c, mode)
        counted == IF mode = "focus" /\ ~ forced
                   THEN [slots.self EXCEPT !.completed_sessions = @ + 1]
                   ELSE slots.self
        next == _next_mode(counted, c, mode)
        entered == [next.self EXCEPT !.current_mode = next.mode,
                                     !.remaining = _total_seconds(c, next.mode)]
    IN  Ran(entered, <<Signal("cycleCompleted", mode, <<>>)>>
                     \o slots.emitted
                     \o <<Signal("modeChanged", next.mode, <<>>), Tick(entered, c)>>)

\* PomodoroEngine.skip
skip(e, c) == _complete_cycle(e, c, TRUE)

\* PomodoroEngine._handle_tick
_handle_tick(e, c) ==
    LET counted == [e EXCEPT !.remaining = @ - 1]
    IN  IF counted.remaining <= 0
        THEN _complete_cycle(counted, c, FALSE)
        ELSE Ran(counted, <<Tick(counted, c)>>)

\* PomodoroEngine.update_config
update_config(e, c) ==
    LET total == _total_seconds(c, e.current_mode)
        clipped == [e EXCEPT !.remaining = IF @ < total THEN @ ELSE total]
    IN  Ran(clipped, <<Tick(clipped, c)>>)

\* TimerPage._toggle_start
_toggle_start(e, c) == IF e.is_running THEN Ran(pause(e), <<>>) ELSE start(e, c)

\* What every step of the window leaves alone.
StandaloneFrame ==
    /\ UNCHANGED <<backend, nread, line, written, logged, calls>>
    /\ UNCHANGED pomodoroVars
    /\ UNCHANGED uiVars
    /\ UNCHANGED demoVars

SetEngine(ran) ==
    /\ engine' = ran.self
    /\ emitted' = ran.emitted

\* main(): the window is built and shown, the event loop starts.
StandaloneBoot ==
    /\ backend = "standalone"
    /\ mainpc = "boot"
    /\ mainpc' = "loop"
    /\ emitted' = <<>>
    /\ UNCHANGED <<engine, config>>
    /\ StandaloneFrame

\* A click on the start button.
StandaloneToggle ==
    /\ backend = "standalone"
    /\ mainpc = "loop"
    /\ SetEngine(_toggle_start(engine, config))
    /\ UNCHANGED <<mainpc, config>>
    /\ StandaloneFrame

\* A click on the reset button.
StandaloneReset ==
    /\ backend = "standalone"
    /\ mainpc = "loop"
    /\ SetEngine(reset(engine, config, TRUE))
    /\ UNCHANGED <<mainpc, config>>
    /\ StandaloneFrame

\* A click on the skip button.
StandaloneSkip ==
    /\ backend = "standalone"
    /\ mainpc = "loop"
    /\ SetEngine(skip(engine, config))
    /\ UNCHANGED <<mainpc, config>>
    /\ StandaloneFrame

\* The one-second QTimer fires while it is active.
StandaloneTimeout ==
    /\ backend = "standalone"
    /\ mainpc = "loop"
    /\ engine.timer
    /\ SetEngine(_handle_tick(engine, config))
    /\ UNCHANGED <<mainpc, config>>
    /\ StandaloneFrame

\* SettingsPage._save and PomodoroWindow._on_config_changed: the shared
\* config object takes the values of the switches, then update_config.
StandaloneSave ==
    /\ backend = "standalone"
    /\ mainpc = "loop"
    /\ \E c \in Configs :
          /\ config' = c
          /\ SetEngine(update_config(engine, c))
    /\ UNCHANGED mainpc
    /\ StandaloneFrame

StandaloneNext ==
    \/ StandaloneBoot
    \/ StandaloneToggle
    \/ StandaloneReset
    \/ StandaloneSkip
    \/ StandaloneTimeout
    \/ StandaloneSave

(* ---------------------------- specification ---------------------------- *)
Backends == {"pomodoro", "uiautodev", "demo", "standalone"}

Init ==
    /\ backend \in Backends
    /\ mainpc = "boot"
    /\ nread = 0
    /\ line = Garbage
    /\ written = <<>>
    /\ logged = <<>>
    /\ calls = <<>>
    /\ events = <<>>
    /\ nticks = 0
    /\ duration = DefaultDuration
    /\ remaining = DefaultDuration
    /\ is_running = FALSE
    /\ start_time = 0
    /\ timer_thread = 0
    /\ workers = <<>>
    /\ request_id = Unset
    /\ acked = [paused |-> FALSE, reset |-> FALSE, started |-> 0,
                negative |-> FALSE]
    /\ server_process = 0
    /\ children = <<>>
    /\ external \in (IF backend = "uiautodev" THEN BOOLEAN ELSE {FALSE})
    /\ cleanups = 0
    /\ relays = <<>>
    /\ monitoring = FALSE
    /\ monitor_thread = 0
    /\ monitors = <<>>
    /\ config \in (IF backend = "standalone" THEN Configs
                   ELSE {PomodoroConfig(FALSE, TRUE)})
    /\ engine = NewEngine(config)
    /\ emitted = <<>>

Next == PomodoroNext \/ UiNext \/ DemoNext \/ StandaloneNext
Spec == Init /\ [][Next]_vars

(* ------------------------------- claims -------------------------------- *)
\* A step of the read loop consumes one line.
ReadStep == nread' = nread + 1

Responses(frames) == SelectSeq(frames, IsResponse)

IsPrefix(a, b) == Len(a) <= Len(b) /\ SubSeq(b, 1, Len(a)) = a

TimerUnchanged == UNCHANGED <<duration, remaining, is_running, start_time,
                              timer_thread, workers>>
SupervisorUnchanged == UNCHANGED <<server_process, children, external>>

\* C1: in pomodoro and uiautodev, the iteration that reads a line writes
\* exactly one Response, carrying the line's id, when the line is a JSON
\* object with a non-null id, and no Response at all for any other line, so
\* that each such id is answered once, never zero times and never twice.
C1_ExactlyOneResponse ==
    [][(ReadStep /\ backend \in {"pomodoro", "uiautodev"}) =>
          LET answers == Responses(written')
          IN  IF line'.json = "object" /\ line'.id # None
              THEN Len(answers) = 1 /\ answers[1].id = line'.id
              ELSE answers = <<>>]_vars

\* C2: in pomodoro, at most one timer_loop thread is inside the loop body
\* (sleeping before a tick or finishing one) at any time.
TickingWorkers == {w \in DOMAIN workers : workers[w] \in {"sleep", "post"}}
C2_AtMostOneWorker ==
    backend = "pomodoro" => Cardinality(TickingWorkers) <= 1

\* C3: in pomodoro, from the success Response of a pause until a later start
\* is accepted, no step writes a tick and no step decrements remaining.
C3_NoTickAfterPause ==
    [][(backend = "pomodoro" /\ acked.paused /\ acked'.paused) =>
          nticks' = nticks /\ remaining' >= remaining]_vars

\* C4: in pomodoro, a start request read while is_running is true spawns no
\* thread and leaves duration, remaining, is_running and start_time as they
\* were; when its params is an object the Response (if the request has an id)
\* is the result {success: false, error: "Timer already running"}.
AlreadyRunning(rid) ==
    [kind |-> "result", id |-> rid, method |-> "", newline |-> TRUE,
     body |-> [name |-> "failure", nums |-> <<>>, text |-> "Timer already running"]]
C4_RedundantStart ==
    [][(ReadStep /\ backend = "pomodoro" /\ is_running
          /\ line'.json = "object" /\ line'.method = "start") =>
          /\ TimerUnchanged
          /\ line'.params = "object" =>
                written' = IF line'.id # None THEN <<AlreadyRunning(line'.id)>>
                           ELSE <<>>]_vars
C4_Witness ==
    /\ backend = "pomodoro"
    /\ line.method = "start"
    /\ line.id # None
    /\ written = <<AlreadyRunning(line.id)>>
    /\ is_running
    /\ Cardinality(LiveWorkers) = 1

\* C5: in pomodoro, after the success Response {success: true, remaining: d}
\* of a start with d > 0, and while no start, pause or reset line has been
\* read since, the tick and completion notifications written are a prefix of
\* tick d-1, tick d-2, ..., tick 0, complete: each tick one less than the last,
\* at most d of them, one completion after tick 0 and nothing after it.
Countdown(d) ==
    [k \in 1 .. d + 1 |->
        IF k <= d
        THEN send("$event", [name |-> "tick", nums |-> <<d - k, d>>, text |-> ""])
        ELSE send("$event", [name |-> "complete", nums |-> <<>>, text |-> ""])]
C5_Countdown ==
    (backend = "pomodoro" /\ acked.started > 0) =>
        IsPrefix(events, Countdown(acked.started))

\* C6: in pomodoro and uiautodev, a request with id i whose method is not a
\* handled one is answered by exactly the error Response with id i, code
\* -32601 and the message echoing the method, and timer and supervisor state
\* are unchanged.
Unhandled(l) ==
    /\ l.json = "object"
    /\ l.envelope = "request"
    /\ l.method \notin (IF backend = "pomodoro" THEN PomodoroMethods ELSE UiMethods)
MethodNotFoundFrame(rid, method) ==
    [kind |-> "error", id |-> rid, method |-> "", newline |-> TRUE,
     body |-> [name |-> "error", nums |-> <<0 - 32601>>, text |-> method]]
C6_MethodNotFound ==
    [][(ReadStep /\ backend \in {"pomodoro", "uiautodev"}
          /\ Unhandled(line') /\ line'.id # None) =>
          /\ written' = <<MethodNotFoundFrame(line'.id, line'.method)>>
          /\ TimerUnchanged
          /\ SupervisorUnchanged]_vars
C6_Witness ==
    /\ backend = "uiautodev"
    /\ mainpc = "loop"
    /\ line.method = "bogus"
    /\ line.id # None
    /\ written = <<MethodNotFoundFrame(line.id, "bogus")>>

\* C7: in every backend, the iteration whose handling raises (the line is
\* valid JSON but not an object, or its params is not an object) reports the
\* failure on stdout or stderr and leaves the read loop running.
Raises(l) ==
    \/ l.json = "nonobject"
    \/ backend = "pomodoro" /\ l.json = "object" /\ l.method = "start"
          /\ l.params = "nonobject"
C7_LoopSurvivesFailure ==
    [][(ReadStep /\ Raises(line')) =>
          mainpc' = "loop" /\ (written' # <<>> \/ logged' # <<>>)]_vars

\* C8: in every backend, the iteration that reads a line that is not valid
\* JSON writes an error notification to stdout, leaves the loop running and
\* changes no state that a later line's handling depends on.
IsErrorNotification(f) == f.kind = "notify" /\ f.method = "error"
C8_MalformedLineNotified ==
    [][(ReadStep /\ line'.json = "invalid") =>
          /\ Count(written', IsErrorNotification) = 1
          /\ mainpc' = "loop"
          /\ TimerUnchanged
          /\ SupervisorUnchanged
          /\ UNCHANGED <<request_id, monitoring, monitor_thread, monitors>>]_vars

\* C9: in pomodoro and uiautodev, the iteration that reads a request without
\* an id writes no Response, and the method still takes effect: start sets the
\* countdown and spawns the thread, pause clears is_running, reset restores
\* remaining and writes its notification, shutdown and restartServer stop the
\* owned child.
C9_NoIdNoResponse ==
    [][(ReadStep /\ backend \in {"pomodoro", "uiautodev"}
          /\ line'.json = "object" /\ line'.id = None) =>
          /\ Responses(written') = <<>>
          /\ (line'.method = "start" /\ line'.params = "object" /\ ~ is_running) =>
                /\ is_running'
                /\ remaining' = IF line'.duration # 0 THEN line'.duration ELSE duration
                /\ duration' = remaining'
                /\ workers' = Append(workers, "test")
                /\ timer_thread' = Len(workers')
                /\ start_time' # 0
          /\ (line'.method = "pause" /\ is_running) =>
                ~ is_running' /\ remaining' = remaining
          /\ line'.method = "reset" =>
                /\ ~ is_running' /\ remaining' = duration /\ start_time' = 0
                /\ Len(written') = 1 /\ written'[1].body.name = "reset"
          /\ (line'.method \in {"shutdown", "restartServer"} /\ server_process # 0) =>
                /\ children'[server_process] = "dead"
                /\ server_process' # server_process]_vars
C9_Witness ==
    /\ backend = "pomodoro"
    /\ line.json = "object"
    /\ line.method = "start"
    /\ line.id = None
    /\ line.duration > 0
    /\ written = <<>>
    /\ is_running
    /\ remaining = line.duration
    /\ workers = <<"test">>

\* C10: in pomodoro and uiautodev, the iteration that reads an inbound
\* Response envelope (an object with an id and a result or error, no method)
\* writes nothing to stdout and changes no timer or supervisor state.
C10_InboundResponseDiscarded ==
    [][(ReadStep /\ backend \in {"pomodoro", "uiautodev"}
          /\ line'.envelope = "response") =>
          /\ written' = <<>>
          /\ TimerUnchanged
          /\ SupervisorUnchanged]_vars

(* ------------------- claims on supervision and exit -------------------- *)
Has(seq, x) == \E i \in DOMAIN seq : seq[i] = x

\* The position of the first x in seq, 0 when there is none.
IndexOf(seq, x) ==
    IF Has(seq, x)
    THEN CHOOSE i \in DOMAIN seq : seq[i] = x /\ \A j \in 1 .. (i - 1) : seq[j] # x
    ELSE 0

IsErrorLog(f) ==
    f.kind = "notify" /\ f.method = "$event" /\ f.body.name = "log"
                      /\ f.body.nums = <<1>>

Exited == backend = "uiautodev" /\ mainpc \in {"done", "exited"}

\* C11: in uiautodev, once the process has exited through end-of-stream,
\* SIGTERM or SIGINT, cleanup has run exactly once.
C11_CleanupOnce == Exited => cleanups = 1

Waits == {"wait_for_server(timeout=30)", "wait(timeout=5)", "join(timeout=2)"}

\* C13: in every backend, no step of the read loop waits for background work:
\* the handler of a line makes no waiting call before the loop reads on.
C13_HandlersDoNotWait ==
    [][ReadStep => \A i \in DOMAIN calls' : calls'[i] \notin Waits]_vars

NeverReady ==
    /\ backend = "uiautodev"
    /\ Len(children') = Len(children) + 1
    /\ children'[Len(children')] # "serving"

IsReadinessWait(c) == c = "wait_for_server(timeout=30)"
ReportsStart(f) == f.body.name \in {"serverReady", "restart"}

\* C15: in uiautodev, a start whose child does not become ready waits for
\* readiness once, for the 30 seconds, writes exactly one error-level
\* notification, the timeout, and reports failure.
C15_TimeoutOnce ==
    [][NeverReady =>
          /\ Count(calls', IsReadinessWait) = 1
          /\ Count(written', IsErrorLog) = 1
          /\ Has(written', Log("error", "timeout"))
          /\ \A i \in DOMAIN written' :
                ReportsStart(written'[i]) => written'[i].body.nums = <<0>>
          /\ mainpc = "boot" => Has(written', emit("serverReady", <<0>>, ""))]_vars

C15_Witness ==
    /\ backend = "uiautodev"
    /\ children # <<>>
    /\ children[Len(children)] = "starting"
    /\ server_process = Len(children)
    /\ Has(written, Log("error", "timeout"))
    /\ Has(calls, "wait_for_server(timeout=30)")

\* C16: in uiautodev, a start whose readiness wait timed out terminates or
\* kills the child it spawned after the wait, and does not leave it as
\* server_process.
C16_TimeoutStopsChild ==
    [][NeverReady =>
          /\ \E i \in DOMAIN calls' :
                /\ i > IndexOf(calls', "wait_for_server(timeout=30)")
                /\ calls'[i] \in {"terminate", "kill"}
          /\ server_process' # Len(children')]_vars

\* A step in which start_uiautodev_server runs: the boot, or a restartServer
\* request.
StartRuns ==
    /\ backend = "uiautodev"
    /\ \/ mainpc = "boot" /\ mainpc' = "loop"
       \/ ReadStep /\ line'.json = "object" /\ line'.method = "restartServer"

\* After the step, an instance that existed before it accepts connections.
StillReachable ==
    external' \/ \E c \in DOMAIN children : children'[c] = "serving"

\* C17: in uiautodev, a start that finds the endpoint accepting connections
\* spawns no child, leaves server_process as it found it (None after the stop
\* of a restart) and reports success; and no step spawns a child while an
\* instance is reachable.
C17_NoDuplicateSpawn ==
    [][/\ (StartRuns /\ StillReachable) =>
             /\ Len(children') = Len(children)
             /\ ~ Has(calls', "Popen")
             /\ server_process' = (IF mainpc = "boot" THEN server_process ELSE 0)
             /\ Has(written', Log("info", "already running"))
             /\ \A i \in DOMAIN written' :
                   ReportsStart(written'[i]) => written'[i].body.nums = <<1>>
             /\ mainpc = "boot" => Has(written', emit("serverReady", <<1>>, ""))
       /\ (backend = "uiautodev" /\ Len(children') > Len(children)) =>
             ~ StillReachable]_vars

C17_Witness ==
    /\ backend = "uiautodev"
    /\ external
    /\ children = <<>>
    /\ server_process = 0
    /\ Has(written, Log("info", "already running"))
    /\ Has(written, emit("serverReady", <<1>>, ""))

\* A step in which stop_uiautodev_server runs: a restartServer or shutdown
\* request, or the exit of the process.
StopRuns ==
    /\ backend = "uiautodev"
    /\ \/ ReadStep /\ Stops(line')
       \/ mainpc = "loop" /\ mainpc' \in {"done", "exited", "crashed"}

\* C18: in uiautodev, a stop with an owned child calls terminate, then the
\* five-second wait, then kill only for a child that was alive; on every path,
\* with or without an owned child, it then calls the /shutdown endpoint and
\* server_process is None (or the child a following start spawned).
C18_StopSequence ==
    [][StopRuns =>
          LET k == IndexOf(calls', "urlopen(/shutdown)")
              teardown == SubSeq(calls', 1, k - 1)
          IN  /\ k > 0
              /\ IF server_process = 0
                 THEN teardown = <<>>
                 ELSE /\ teardown \in {<<"terminate", "wait(timeout=5)">>,
                                       <<"terminate", "wait(timeout=5)", "kill">>,
                                       <<"terminate">>}
                      /\ Has(teardown, "kill") => children[server_process] # "dead"
              /\ \/ server_process' = 0
                 \/ /\ Len(children') > Len(children)
                    /\ server_process' = Len(children')]_vars

C18_Witness ==
    /\ backend = "uiautodev"
    /\ line.method = "shutdown"
    /\ server_process = 0
    /\ children # <<>>
    /\ calls = <<"terminate", "wait(timeout=5)", "kill", "urlopen(/shutdown)">>

StopCalls == {"terminate", "wait(timeout=5)", "kill", "urlopen(/shutdown)"}
StartCalls == {"connect_ex", "Popen", "Thread.start", "wait_for_server(timeout=30)"}

C20_ChildExitNotified ==
    [][(/\ backend = "uiautodev"
        /\ server_process # 0
        /\ Len(relays') = Len(relays)
        /\ relays[server_process] # {}
        /\ relays'[server_process] = {}) =>
          Count(written', IsErrorLog) >= 1]_vars

(* ----------------- claims on status, stop and readiness ---------------- *)
\* C21: in uiautodev, a getServerStatus request makes no call to the service
\* endpoint (no connection attempt) and changes no supervisor state.
C21_StatusDoesNotProbe ==
    [][(backend = "uiautodev" /\ ReadStep /\ line'.json = "object"
                              /\ line'.method = "getServerStatus") =>
          /\ calls' = <<>>
          /\ SupervisorUnchanged]_vars

NotRunning(rid) ==
    send_response(rid, Payload("failure", <<>>, "Timer not running"), Null)

\* C22: a pomodoro pause while the timer is not running is answered with the
\* failure "Timer not running" and changes no timer state; a backend-demo
\* stop_monitor while not monitoring, and a start_monitor while monitoring,
\* write one info notification and change no monitor state.
C22_RedundantStopStart ==
    [][/\ (backend = "pomodoro" /\ ReadStep /\ line'.json = "object"
                                /\ line'.method = "pause" /\ ~ is_running) =>
             /\ TimerUnchanged
             /\ written' = IF line'.id # None THEN <<NotRunning(line'.id)>> ELSE <<>>
       /\ (backend = "demo" /\ ReadStep /\ line'.json = "object"
              /\ \/ line'.method = "stop_monitor" /\ ~ monitoring
                 \/ line'.method = "start_monitor" /\ monitoring) =>
             /\ UNCHANGED demoVars
             /\ Len(written') = 1
             /\ written'[1].method = "info"]_vars

C22_Witness ==
    /\ backend = "pomodoro"
    /\ line.method = "pause"
    /\ line.id # None
    /\ written = <<NotRunning(line.id)>>
    /\ workers # <<>>

IsMonitorData(f) == f.kind = "notify" /\ f.method = "monitor_data"

\* C23: in backend-demo, while monitoring stays cleared (from the stop that
\* wrote monitor_stopped until a start_monitor is accepted) no step writes a
\* monitor_data notification, and at most one monitor_loop thread is alive.
C23_NoDataAfterStop ==
    [][backend = "demo" =>
          /\ (~ monitoring /\ ~ monitoring') => Count(written', IsMonitorData) = 0
          /\ Cardinality({m \in DOMAIN monitors' : monitors'[m] # "dead"}) <= 1]_vars

\* C25: in pomodoro, whenever is_running is true some timer_loop thread is
\* alive.
C25_RunningHasWorker ==
    (backend = "pomodoro" /\ is_running) => LiveWorkers # {}

\* C26: in pomodoro, every Response written while a line is processed carries
\* the id of that line (a line without an extracted id gets no Response).
C26_ResponseCarriesOwnId ==
    [][(backend = "pomodoro" /\ ReadStep) =>
          \A i \in DOMAIN written' :
             IsResponse(written'[i]) =>
                line'.json = "object" /\ written'[i].id = line'.id]_vars

\* C27: in pomodoro, from the Response to a reset until a later start is
\* accepted, remaining equals duration and no tick is written.
C27_ResetHolds ==
    [][(backend = "pomodoro" /\ acked.reset /\ acked'.reset) =>
          /\ remaining' = duration'
          /\ nticks' = nticks]_vars

InRange(f) == f.body.nums[1] >= 0 /\ f.body.nums[1] <= f.body.nums[2]

\* C28: in pomodoro, as long as every accepted start had a positive (or no)
\* duration, 0 <= remaining <= duration and every tick written carries a
\* remaining value between 0 and its total.
C28_RemainingInRange ==
    (backend = "pomodoro" /\ ~ acked.negative) =>
       /\ 0 <= remaining
       /\ remaining <= duration
       /\ \A i \in DOMAIN written : IsTick(written[i]) => InRange(written[i])

\* C29: in pomodoro, at most one completion is written after an accepted
\* start, and the step that writes it leaves remaining at 0 and is_running
\* false.
C29_OneCompletion ==
    [][backend = "pomodoro" =>
          /\ Count(events', IsComplete) <= 1
          /\ Count(written', IsComplete) >= 1 => remaining' = 0 /\ ~ is_running']_vars

IsReady(f) == f.kind = "notify" /\ f.method = "$ready"

\* The methods a $ready frame lists.
Listed(f) == {MethodNames[f.body.nums[i]] : i \in DOMAIN f.body.nums}

\* The methods the dispatcher of the running backend does not answer with
\* method-not-found, among the known names and two unknown ones.
Handled ==
    {m \in {MethodNames[k] : k \in DOMAIN MethodNames} \cup {"bogus", ""} :
        IF backend = "pomodoro"
        THEN PomodoroDispatchError(Request(1, m)) = Null
        ELSE handle_request(Ui, Request(1, m), "exited", FALSE, "ready").error = Null}

\* C24: in pomodoro and uiautodev, the step before the loop writes exactly one
\* $ready, with no line read and no Response written, listing exactly the
\* methods the dispatcher handles; no later step writes a $ready.
C24_ReadyOnce ==
    [][(backend = "pomodoro" \/ backend = "uiautodev") =>
          /\ mainpc = "boot" =>
                /\ Count(written', IsReady) = 1
                /\ nread' = 0
                /\ Count(written', IsResponse) = 0
                /\ \A i \in DOMAIN written' :
                      IsReady(written'[i]) => Listed(written'[i]) = Handled
          /\ mainpc # "boot" => Count(written', IsReady) = 0]_vars

C24_Witness ==
    /\ backend = "uiautodev"
    /\ mainpc = "loop"
    /\ nread = 0
    /\ Count(written, IsReady) = 1
    /\ Has(written, emit("serverReady", <<1>>, ""))

\* The step is a restartServer request answered with success: true.
RestartSucceeds ==
    /\ backend = "uiautodev"
    /\ ReadStep
    /\ line'.json = "object"
    /\ line'.method = "restartServer"
    /\ \E i \in DOMAIN written' :
          /\ IsResponse(written'[i])
          /\ written'[i].body = Payload("restart", <<1>>, "")

\* C30: in uiautodev, when restartServer answers success: true, an instance
\* accepts connections once the handler has returned, and it is not the
\* instance that held the endpoint when this restart sent it /shutdown.
C30_RestartLeavesFreshService ==
    [][RestartSucceeds =>
          /\ external' \/ \E c \in DOMAIN children' : children'[c] = "serving"
          /\ ~ (external /\ external')]_vars

(* ------------------- claims on the monitor's liveness ------------------ *)
\* C31: in backend-demo, whenever the monitoring flag is true a monitor_loop
\* worker is live; a worker that leaves its loop on an error clears the flag.
C31_MonitoringHasWorker ==
    (backend = "demo" /\ monitoring) => LiveMonitors # {}

(* --------------------- claims on the standalone timer ------------------ *)
\* The step completes a cycle: cycleCompleted is among the signals emitted.
CycleCompletes ==
    /\ backend = "standalone"
    /\ \E i \in DOMAIN emitted' : emitted'[i].signal = "cycleCompleted"

\* The auto-start setting that belongs to a mode.
AutoStartOf(c, mode) ==
    IF mode = "focus" THEN c.auto_start_focus ELSE c.auto_start_break

\* C32: in the standalone timer, after a step that completes a cycle (by the
\* countdown or by skip) the engine is running exactly when the auto-start
\* setting of the mode it has entered is enabled.
C32_AutoStartOnEnteredMode ==
    [][CycleCompletes =>
          (engine'.is_running <=> AutoStartOf(config', engine'.current_mode))]_vars

====
